---- MODULE Spec2Model ----
(***************************************************************************)
(* A model of testrail_mcp/testrail_client.py: the TestRailClient class,   *)
(* its constructor, its request dispatcher _send_request and its endpoint  *)
(* wrappers.                                                               *)
(*                                                                         *)
(* Python strings are sequences of one-character strings, so that          *)
(* concatenation, endswith, "in", upper(), urlencode and the f-strings of  *)
(* the source are computed character by character.  Python values are      *)
(* tagged records (None, int, str, dict); a dict is the sequence of its    *)
(* items in insertion order.                                               *)
(***************************************************************************)
EXTENDS Integers, Sequences, FiniteSets, TLC

(***************************************************************************)
(* Strings                                                                 *)
(***************************************************************************)

\* s.startswith(p) at offset i: p occurs in s at position i.
OccursAt(s, p, i) ==
    /\ i >= 1
    /\ i + Len(p) - 1 <= Len(s)
    /\ \A j \in 1..Len(p) : s[i + j - 1] = p[j]

\* Python's "p in s" for strings.
Contains(s, p) == \E i \in 1..(Len(s) - Len(p) + 1) : OccursAt(s, p, i)

\* Python's s.endswith(p).
EndsWith(s, p) == Len(p) <= Len(s) /\ OccursAt(s, p, Len(s) - Len(p) + 1)

\* s.count(c) for a single character c.
CountChar(s, c) == Cardinality({i \in 1..Len(s) : s[i] = c})

\* The backquote (code 96) cannot be written in a string literal; it stands
\* under this name in the table and occurs in no input.
Backquote == "backquote"

\* The printable ASCII characters, code 32 (space) to 126 (~), in order.
Ascii ==
    <<" ", "!", "\"", "#", "$", "%", "&", "'", "(", ")", "*", "+", ",", "-", ".", "/", "0", "1", "2", "3", "4", "5", "6", "7", "8", "9", ":", ";", "<", "=", ">", "?", "@", "A", "B", "C", "D", "E", "F", "G", "H", "I", "J", "K", "L", "M", "N", "O", "P", "Q", "R", "S", "T", "U", "V", "W", "X", "Y", "Z", "[", "\\", "]", "^", "_">>
    \o <<Backquote>> \o <<"a", "b", "c", "d", "e", "f", "g", "h", "i", "j", "k", "l", "m", "n", "o", "p", "q", "r", "s", "t", "u", "v", "w", "x", "y", "z", "{", "|", "}", "~">>

Chars == {Ascii[i] : i \in 1..Len(Ascii)}

OrdTable == [c \in Chars |-> 31 + (CHOOSE i \in 1..Len(Ascii) : Ascii[i] = c)]

\* ord(c), for a printable ASCII character.
Ord(c) == OrdTable[c]

\* chr(n), for a printable ASCII code.
Chr(n) == Ascii[n - 31]

\* str.upper() on one character: a-z become A-Z, everything else is kept.
UpperChar(c) == IF Ord(c) >= Ord("a") /\ Ord(c) <= Ord("z") THEN Chr(Ord(c) - 32) ELSE c

UpperTable == [c \in Chars |-> UpperChar(c)]

\* str.upper().
Upper(s) == [i \in 1..Len(s) |-> UpperTable[s[i]]]

Digits == <<"0", "1", "2", "3", "4", "5", "6", "7", "8", "9">>

\* str(n) for a non-negative int.
RECURSIVE NatToStr(_)
NatToStr(n) == IF n < 10 THEN <<Digits[n + 1]>> ELSE NatToStr(n \div 10) \o <<Digits[(n % 10) + 1]>>

\* str(n) for an int.
IntToStr(n) == IF n < 0 THEN <<"-">> \o NatToStr(0 - n) ELSE NatToStr(n)

\* str.strip(): leading and trailing spaces removed.
RECURSIVE Strip(_)
Strip(s) ==
    IF Len(s) = 0 THEN s
    ELSE IF s[1] = " " THEN Strip(Tail(s))
    ELSE IF s[Len(s)] = " " THEN Strip(SubSeq(s, 1, Len(s) - 1))
    ELSE s

(***************************************************************************)
(* Python values                                                           *)
(***************************************************************************)

PyNone == [t |-> "none"]
PyInt(n) == [t |-> "int", i |-> n]
PyStr(s) == [t |-> "str", s |-> s]
\* A dict: the sequence of its <<key, value>> items in insertion order; keys are strings.
PyDict(items) == [t |-> "dict", d |-> items]

IsNone(v) == v.t = "none"

\* bool(v): the truth value the "if params" and "if data" tests use.
Truthy(v) ==
    CASE v.t = "none" -> FALSE
      [] v.t = "int" -> v.i # 0
      [] v.t = "str" -> Len(v.s) > 0
      [] v.t = "dict" -> Len(v.d) > 0

\* str(v) of a scalar, as urlencode applies it.
PyToStr(v) ==
    CASE v.t = "none" -> <<"N", "o", "n", "e">>
      [] v.t = "int" -> IntToStr(v.i)
      [] v.t = "str" -> v.s

\* repr(v) of a scalar: strings are quoted.
PyReprScalar(v) ==
    CASE v.t = "none" -> <<"N", "o", "n", "e">>
      [] v.t = "int" -> IntToStr(v.i)
      [] v.t = "str" -> <<"'">> \o (v.s) \o <<"'">>

\* The items of a dict's repr, "'k': v" joined by ", ".
RECURSIVE ReprItems(_)
ReprItems(items) ==
    IF Len(items) = 0 THEN <<>>
    ELSE <<"'">> \o (items[1][1]) \o <<"'", ":", " ">> \o PyReprScalar(items[1][2])
         \o (IF Len(items) > 1 THEN <<",", " ">> ELSE <<>>) \o ReprItems(Tail(items))

\* str(v) as an f-string formats it: repr for a dict, str for a scalar.
PyFormat(v) == IF v.t = "dict" THEN <<"{">> \o ReprItems(v.d) \o <<"}">> ELSE PyToStr(v)

\* d[k] = v on a dict's items: an existing key keeps its place and takes the
\* new value, a new key is appended.
DictSet(items, k, v) ==
    IF \E i \in 1..Len(items) : items[i][1] = k
    THEN [i \in 1..Len(items) |-> IF items[i][1] = k THEN <<k, v>> ELSE items[i]]
    ELSE Append(items, <<k, v>>)

\* d.get(k), None when absent.
DictGet(items, k) ==
    IF \E i \in 1..Len(items) : items[i][1] = k
    THEN items[CHOOSE i \in 1..Len(items) : items[i][1] = k][2]
    ELSE PyNone

DictKeys(items) == {items[i][1] : i \in 1..Len(items)}

(***************************************************************************)
(* Library functions the client calls                                      *)
(***************************************************************************)

HexDigits == <<"0", "1", "2", "3", "4", "5", "6", "7", "8", "9", "A", "B", "C", "D", "E", "F">>

\* The characters urllib.parse.quote_plus never escapes.
IsUnreserved(c) ==
    \/ (Ord(c) >= Ord("a") /\ Ord(c) <= Ord("z"))
    \/ (Ord(c) >= Ord("A") /\ Ord(c) <= Ord("Z"))
    \/ (Ord(c) >= Ord("0") /\ Ord(c) <= Ord("9"))
    \/ c \in {"_", ".", "-", "~"}

\* quote_plus on one character: a space becomes "+", an unreserved character
\* is kept, any other becomes %XX.
QuoteChar(c) ==
    IF c = " " THEN <<"+">>
    ELSE IF IsUnreserved(c) THEN <<c>>
    ELSE <<"%", HexDigits[(Ord(c) \div 16) + 1], HexDigits[(Ord(c) % 16) + 1]>>

QuoteTable == [c \in Chars |-> QuoteChar(c)]

\* urllib.parse.quote_plus.
RECURSIVE QuotePlus(_)
QuotePlus(s) == IF Len(s) = 0 THEN <<>> ELSE QuoteTable[s[1]] \o QuotePlus(Tail(s))

\* urllib.parse.urlencode of a dict's items: quote_plus(str(k)) = quote_plus(str(v)),
\* joined by "&".
RECURSIVE UrlEncode(_)
UrlEncode(items) ==
    IF Len(items) = 0 THEN <<>>
    ELSE QuotePlus(items[1][1]) \o <<"=">> \o QuotePlus(PyToStr(items[1][2]))
         \o (IF Len(items) > 1 THEN <<"&">> ELSE <<>>) \o UrlEncode(Tail(items))

\* json.dumps of a scalar.
JsonScalar(v) ==
    CASE v.t = "none" -> <<"n", "u", "l", "l">>
      [] v.t = "int" -> IntToStr(v.i)
      [] v.t = "str" -> <<"\"">> \o (v.s) \o <<"\"">>

RECURSIVE JsonItems(_)
JsonItems(items) ==
    IF Len(items) = 0 THEN <<>>
    ELSE <<"\"">> \o (items[1][1]) \o <<"\"", ":", " ">> \o JsonScalar(items[1][2])
         \o (IF Len(items) > 1 THEN <<",", " ">> ELSE <<>>) \o JsonItems(Tail(items))

\* json.dumps of a dict.
JsonDumps(v) == <<"{">> \o JsonItems(v.d) \o <<"}">>

B64Chars == <<"A", "B", "C", "D", "E", "F", "G", "H", "I", "J", "K", "L", "M", "N", "O", "P", "Q", "R", "S", "T", "U", "V", "W", "X", "Y", "Z", "a", "b", "c", "d", "e", "f", "g", "h", "i", "j", "k", "l", "m", "n", "o", "p", "q", "r", "s", "t", "u", "v", "w", "x", "y", "z", "0", "1", "2", "3", "4", "5", "6", "7", "8", "9", "+", "/">>

\* base64.b64encode of a sequence of byte values.
RECURSIVE B64Encode(_)
B64Encode(b) ==
    IF Len(b) = 0 THEN <<>>
    ELSE IF Len(b) = 1 THEN
        <<B64Chars[(b[1] \div 4) + 1], B64Chars[((b[1] % 4) * 16) + 1], "=", "=">>
    ELSE IF Len(b) = 2 THEN
        <<B64Chars[(b[1] \div 4) + 1],
          B64Chars[((b[1] % 4) * 16) + (b[2] \div 16) + 1],
          B64Chars[((b[2] % 16) * 4) + 1], "=">>
    ELSE
        <<B64Chars[(b[1] \div 4) + 1],
          B64Chars[((b[1] % 4) * 16) + (b[2] \div 16) + 1],
          B64Chars[((b[2] % 16) * 4) + (b[3] \div 64) + 1],
          B64Chars[(b[3] % 64) + 1]>> \o B64Encode(SubSeq(b, 4, Len(b)))

\* bytes(s, 'utf-8') of an ASCII string.
Utf8(s) == [i \in 1..Len(s) |-> Ord(s[i])]

(***************************************************************************)
(* The client                                                              *)
(***************************************************************************)

VARIABLES
    username,   \* self.username
    api_key,    \* self.api_key
    base_url,   \* self.base_url
    headers,    \* self.session.headers: the items the constructor sets
    pc,         \* "idle"; "awaiting" while a call blocks in the session's HTTP call; "done" when it has ended
    call,       \* the arguments _send_request was last entered with, and the public method that entered it
    args,       \* the arguments the public method itself was called with
    heap,       \* the contents, now, of the mapping object the caller passed as params
    url,        \* the local url of _send_request
    sent,       \* the HTTP requests issued on the session during the current call
    response,   \* the response the session returned to the current call, if any
    outcome     \* how the last call ended: nothing yet, a returned value, or a raised error

config == <<username, api_key, base_url, headers>>
vars == <<username, api_key, base_url, headers, pc, call, args, heap, url, sent, response, outcome>>

\* The fixed API prefix the constructor appends.
ApiPrefix == <<"i", "n", "d", "e", "x", ".", "p", "h", "p", "?", "/", "a", "p", "i", "/", "v", "2", "/">>

\* __init__: a base URL that does not end with a slash gets one.
EnsureSlash(b) == IF ~EndsWith(b, <<"/">>) THEN b \o <<"/">> ELSE b

\* __init__: self.base_url.
InitBaseUrl(b) == EnsureSlash(b) \o ApiPrefix

\* __init__: the Basic-Auth value, base64 of "username:api_key", stripped.
BasicAuth(u, k) == Strip(B64Encode(Utf8(u \o <<":">> \o k)))

\* __init__: the headers set on the session.
InitHeaders(u, k) ==
    << <<<<"A", "u", "t", "h", "o", "r", "i", "z", "a", "t", "i", "o", "n">>, PyStr(<<"B", "a", "s", "i", "c", " ">> \o BasicAuth(u, k))>>,
       <<<<"C", "o", "n", "t", "e", "n", "t", "-", "T", "y", "p", "e">>, PyStr(<<"a", "p", "p", "l", "i", "c", "a", "t", "i", "o", "n", "/", "j", "s", "o", "n">>)>> >>

\* A filter that tests the value's truth instead of "is not None", and so
\* drops 0 and the empty string too.
RECURSIVE FilterFalsy(_)
FilterFalsy(items) ==
    IF Len(items) = 0 THEN <<>>
    ELSE (IF Truthy(items[1][2]) THEN <<items[1]>> ELSE <<>>) \o FilterFalsy(Tail(items))

\* _send_request: the params entries whose value is not None, in order.
RECURSIVE FilterNone(_)
FilterNone(items) ==
    IF Len(items) = 0 THEN <<>>
    ELSE (IF ~IsNone(items[1][2]) THEN <<items[1]>> ELSE <<>>) \o FilterNone(Tail(items))

\* A separator that is always "?".
SeparatorQuestion(u) == <<"?">>

\* _send_request: "&" when the URL built so far holds a "?", otherwise "?".
Separator(u) == IF Contains(u, <<"?">>) THEN <<"&">> ELSE <<"?">>

\* _send_request: the request URL.
BuildUrl(base, method, uri, params) ==
    LET u == base \o uri IN
    IF Truthy(params) /\ Upper(method) = <<"G", "E", "T">>
    THEN LET filtered_params == FilterNone(params.d) IN
         IF Len(filtered_params) > 0
         THEN u \o Separator(u) \o UrlEncode(filtered_params)
         ELSE u
    ELSE u

\* The if/elif chain comparing the method as given, without upper().
HttpVerbCaseSensitive(method) ==
    CASE method = <<"G", "E", "T">> -> "get"
      [] method = <<"P", "O", "S", "T">> -> "post"
      [] method = <<"P", "U", "T">> -> "put"
      [] method = <<"D", "E", "L", "E", "T", "E">> -> "delete"
      [] OTHER -> "none"

\* _send_request: the session method the if/elif chain selects, "none" for the
\* final else.
HttpVerb(method) ==
    CASE Upper(method) = <<"G", "E", "T">> -> "get"
      [] Upper(method) = <<"P", "O", "S", "T">> -> "post"
      [] Upper(method) = <<"P", "U", "T">> -> "put"
      [] Upper(method) = <<"D", "E", "L", "E", "T", "E">> -> "delete"
      [] OTHER -> "none"

\* _send_request: the data= argument of the session call.
RequestBody(verb, data) ==
    IF verb \in {"post", "put"} /\ Truthy(data) THEN PyStr(JsonDumps(data)) ELSE PyNone

\* The status from which a response is an error.
ErrorStatus == 300

NoOutcome == [kind |-> "none", exc |-> "", msg |-> <<>>, value |-> PyNone]
Returned(v) == [kind |-> "return", exc |-> "", msg |-> <<>>, value |-> v]
Raised(e, m) == [kind |-> "raise", exc |-> e, msg |-> m, value |-> PyNone]

NoResponse == [status_code |-> 0, content |-> <<>>, json |-> [ok |-> FALSE, value |-> PyNone]]

\* A message that reports the params after the None entries were dropped.
ErrorMessageFiltered(status, error, u, params) ==
    <<"T", "e", "s", "t", "R", "a", "i", "l", " ", "A", "P", "I", " ", "r", "e", "t", "u", "r", "n", "e", "d", " ", "H", "T", "T", "P", " ">> \o IntToStr(status) \o <<":", " ">> \o PyFormat(error)
    \o <<" ", "[", "U", "R", "L", ":", " ">> \o u \o <<"]">>
    \o (IF Truthy(params)
        THEN <<" ", "[", "O", "r", "i", "g", "i", "n", "a", "l", " ", "p", "a", "r", "a", "m", "s", ":", " ">> \o PyFormat(PyDict(FilterNone(params.d))) \o <<"]">>
        ELSE <<>>)

\* _send_request: the message of the error raised for an error response.
ErrorMessage(status, error, u, params) ==
    <<"T", "e", "s", "t", "R", "a", "i", "l", " ", "A", "P", "I", " ", "r", "e", "t", "u", "r", "n", "e", "d", " ", "H", "T", "T", "P", " ">> \o IntToStr(status) \o <<":", " ">> \o PyFormat(error)
    \o <<" ", "[", "U", "R", "L", ":", " ">> \o u \o <<"]">>
    \o (IF Truthy(params) THEN <<" ", "[", "O", "r", "i", "g", "i", "n", "a", "l", " ", "p", "a", "r", "a", "m", "s", ":", " ">> \o PyFormat(params) \o <<"]">> ELSE <<>>)

\* _send_request: response.json(), or response.text when that raises.
ErrorPayload(resp) == IF resp.json.ok THEN resp.json.value ELSE PyStr(resp.content)

\* _send_request, from the status test to the end: the call's outcome for a response.
Finish(resp, u, params) ==
    IF resp.status_code >= ErrorStatus
    THEN Raised("Exception", ErrorMessage(resp.status_code, ErrorPayload(resp), u, params))
    ELSE IF Len(resp.content) > 0
         THEN (IF resp.json.ok THEN Returned(resp.json.value) ELSE Raised("JSONDecodeError", <<>>))
         ELSE Returned(PyDict(<<>>))

\* The endpoint wrappers that only forward: the method and URI each passes to
\* _send_request, whether the URI embeds an id and whether data is forwarded.
Wrappers ==
<<
    [name |-> "get_case", verb |-> <<"G", "E", "T">>, path |-> <<"g", "e", "t", "_", "c", "a", "s", "e", "/">>, id |-> TRUE, data |-> FALSE],
    [name |-> "add_case", verb |-> <<"P", "O", "S", "T">>, path |-> <<"a", "d", "d", "_", "c", "a", "s", "e", "/">>, id |-> TRUE, data |-> TRUE],
    [name |-> "update_case", verb |-> <<"P", "O", "S", "T">>, path |-> <<"u", "p", "d", "a", "t", "e", "_", "c", "a", "s", "e", "/">>, id |-> TRUE, data |-> TRUE],
    [name |-> "delete_case", verb |-> <<"P", "O", "S", "T">>, path |-> <<"d", "e", "l", "e", "t", "e", "_", "c", "a", "s", "e", "/">>, id |-> TRUE, data |-> FALSE],
    [name |-> "get_project", verb |-> <<"G", "E", "T">>, path |-> <<"g", "e", "t", "_", "p", "r", "o", "j", "e", "c", "t", "/">>, id |-> TRUE, data |-> FALSE],
    [name |-> "get_projects", verb |-> <<"G", "E", "T">>, path |-> <<"g", "e", "t", "_", "p", "r", "o", "j", "e", "c", "t", "s">>, id |-> FALSE, data |-> FALSE],
    [name |-> "add_project", verb |-> <<"P", "O", "S", "T">>, path |-> <<"a", "d", "d", "_", "p", "r", "o", "j", "e", "c", "t">>, id |-> FALSE, data |-> TRUE],
    [name |-> "update_project", verb |-> <<"P", "O", "S", "T">>, path |-> <<"u", "p", "d", "a", "t", "e", "_", "p", "r", "o", "j", "e", "c", "t", "/">>, id |-> TRUE, data |-> TRUE],
    [name |-> "delete_project", verb |-> <<"P", "O", "S", "T">>, path |-> <<"d", "e", "l", "e", "t", "e", "_", "p", "r", "o", "j", "e", "c", "t", "/">>, id |-> TRUE, data |-> FALSE],
    [name |-> "get_run", verb |-> <<"G", "E", "T">>, path |-> <<"g", "e", "t", "_", "r", "u", "n", "/">>, id |-> TRUE, data |-> FALSE],
    [name |-> "get_runs", verb |-> <<"G", "E", "T">>, path |-> <<"g", "e", "t", "_", "r", "u", "n", "s", "/">>, id |-> TRUE, data |-> FALSE],
    [name |-> "add_run", verb |-> <<"P", "O", "S", "T">>, path |-> <<"a", "d", "d", "_", "r", "u", "n", "/">>, id |-> TRUE, data |-> TRUE],
    [name |-> "update_run", verb |-> <<"P", "O", "S", "T">>, path |-> <<"u", "p", "d", "a", "t", "e", "_", "r", "u", "n", "/">>, id |-> TRUE, data |-> TRUE],
    [name |-> "close_run", verb |-> <<"P", "O", "S", "T">>, path |-> <<"c", "l", "o", "s", "e", "_", "r", "u", "n", "/">>, id |-> TRUE, data |-> FALSE],
    [name |-> "delete_run", verb |-> <<"P", "O", "S", "T">>, path |-> <<"d", "e", "l", "e", "t", "e", "_", "r", "u", "n", "/">>, id |-> TRUE, data |-> FALSE],
    [name |-> "get_results", verb |-> <<"G", "E", "T">>, path |-> <<"g", "e", "t", "_", "r", "e", "s", "u", "l", "t", "s", "/">>, id |-> TRUE, data |-> FALSE],
    [name |-> "add_result", verb |-> <<"P", "O", "S", "T">>, path |-> <<"a", "d", "d", "_", "r", "e", "s", "u", "l", "t", "/">>, id |-> TRUE, data |-> TRUE],
    [name |-> "get_dataset", verb |-> <<"G", "E", "T">>, path |-> <<"g", "e", "t", "_", "d", "a", "t", "a", "s", "e", "t", "/">>, id |-> TRUE, data |-> FALSE],
    [name |-> "get_datasets", verb |-> <<"G", "E", "T">>, path |-> <<"g", "e", "t", "_", "d", "a", "t", "a", "s", "e", "t", "s", "/">>, id |-> TRUE, data |-> FALSE],
    [name |-> "add_dataset", verb |-> <<"P", "O", "S", "T">>, path |-> <<"a", "d", "d", "_", "d", "a", "t", "a", "s", "e", "t", "/">>, id |-> TRUE, data |-> TRUE],
    [name |-> "update_dataset", verb |-> <<"P", "O", "S", "T">>, path |-> <<"u", "p", "d", "a", "t", "e", "_", "d", "a", "t", "a", "s", "e", "t", "/">>, id |-> TRUE, data |-> TRUE],
    [name |-> "delete_dataset", verb |-> <<"P", "O", "S", "T">>, path |-> <<"d", "e", "l", "e", "t", "e", "_", "d", "a", "t", "a", "s", "e", "t", "/">>, id |-> TRUE, data |-> FALSE],
    [name |-> "get_suite", verb |-> <<"G", "E", "T">>, path |-> <<"g", "e", "t", "_", "s", "u", "i", "t", "e", "/">>, id |-> TRUE, data |-> FALSE],
    [name |-> "get_suites", verb |-> <<"G", "E", "T">>, path |-> <<"g", "e", "t", "_", "s", "u", "i", "t", "e", "s", "/">>, id |-> TRUE, data |-> FALSE],
    [name |-> "get_section", verb |-> <<"G", "E", "T">>, path |-> <<"g", "e", "t", "_", "s", "e", "c", "t", "i", "o", "n", "/">>, id |-> TRUE, data |-> FALSE],
    [name |-> "add_section", verb |-> <<"P", "O", "S", "T">>, path |-> <<"a", "d", "d", "_", "s", "e", "c", "t", "i", "o", "n", "/">>, id |-> TRUE, data |-> TRUE],
    [name |-> "update_section", verb |-> <<"P", "O", "S", "T">>, path |-> <<"u", "p", "d", "a", "t", "e", "_", "s", "e", "c", "t", "i", "o", "n", "/">>, id |-> TRUE, data |-> TRUE],
    [name |-> "move_section", verb |-> <<"P", "O", "S", "T">>, path |-> <<"m", "o", "v", "e", "_", "s", "e", "c", "t", "i", "o", "n", "/">>, id |-> TRUE, data |-> TRUE]
>>

\* _send_request up to the session call, without the client's own fields: the
\* URL is built, and either the request is issued and the call blocks, or the
\* method is unsupported and ValueError is raised with nothing sent.
Enter(op, method, uri, data, params) ==
    LET u == BuildUrl(base_url, method, uri, params)
        verb == HttpVerb(method)
    IN  /\ pc = "idle"
        /\ call' = [op |-> op, method |-> method, uri |-> uri, data |-> data, params |-> params]
        /\ url' = u
        /\ response' = NoResponse
        /\ IF verb = "none"
           THEN /\ sent' = <<>>
                /\ outcome' = Raised("ValueError", <<"U", "n", "s", "u", "p", "p", "o", "r", "t", "e", "d", " ", "H", "T", "T", "P", " ", "m", "e", "t", "h", "o", "d", ":", " ">> \o method)
                /\ pc' = "done"
           ELSE /\ sent' = <<[verb |-> verb, url |-> u, body |-> RequestBody(verb, data),
                              headers |-> headers]>>
                /\ outcome' = NoOutcome
                /\ pc' = "awaiting"

\* A dispatcher that builds the URL in self.base_url instead of a local.
DispatchKeepsUrl(op, method, uri, data, params) ==
    /\ Enter(op, method, uri, data, params)
    /\ base_url' = BuildUrl(base_url, method, uri, params)
    /\ UNCHANGED <<username, api_key, headers>>

\* _send_request up to the session call: no field of the client is assigned.
Dispatch(op, method, uri, data, params) ==
    /\ Enter(op, method, uri, data, params)
    /\ UNCHANGED config

NoArgs == [suite_id |-> PyNone, params |-> PyNone]

\* A direct call of the dispatcher.
SendRequest(method, uri, data, params) ==
    /\ Dispatch("_send_request", method, uri, data, params)
    /\ args' = [suite_id |-> PyNone, params |-> params]
    /\ heap' = params

\* One of the forwarding wrappers, called with an id and a data mapping.
Wrapper(w, id, data) ==
    /\ Dispatch(w.name, w.verb,
                IF w.id THEN w.path \o PyFormat(id) ELSE w.path,
                IF w.data THEN data ELSE PyNone,
                PyNone)
    /\ args' = NoArgs
    /\ heap' = PyNone

\* get_cases(project_id, suite_id).
GetCases(project_id, suite_id) ==
    LET params == IF ~IsNone(suite_id) THEN DictSet(<<>>, <<"s", "u", "i", "t", "e", "_", "i", "d">>, suite_id) ELSE <<>> IN
    /\ Dispatch("get_cases", <<"G", "E", "T">>, <<"g", "e", "t", "_", "c", "a", "s", "e", "s", "/">> \o PyFormat(project_id), PyNone, PyDict(params))
    /\ args' = [suite_id |-> suite_id, params |-> PyNone]
    /\ heap' = PyNone

\* get_sections(project_id, suite_id, params): query_params is the caller's own
\* mapping when that is non-empty, and a new empty one otherwise; the
\* assignment of suite_id goes to whichever object it is.
GetSections(project_id, suite_id, params) ==
    LET aliased == Truthy(params)
        query_params0 == IF aliased THEN params.d ELSE <<>>
        query_params == IF ~IsNone(suite_id)
                        THEN DictSet(query_params0, <<"s", "u", "i", "t", "e", "_", "i", "d">>, suite_id)
                        ELSE query_params0
    IN  /\ Dispatch("get_sections", <<"G", "E", "T">>, <<"g", "e", "t", "_", "s", "e", "c", "t", "i", "o", "n", "s", "/">> \o PyFormat(project_id), PyNone,
                    PyDict(query_params))
        /\ args' = [suite_id |-> suite_id, params |-> params]
        /\ heap' = IF aliased THEN PyDict(query_params) ELSE params

\* delete_section(section_id, soft).
DeleteSection(section_id, soft) ==
    LET u == IF soft THEN <<"d", "e", "l", "e", "t", "e", "_", "s", "e", "c", "t", "i", "o", "n", "/">> \o PyFormat(section_id) \o <<"?", "s", "o", "f", "t", "=", "1">>
             ELSE <<"d", "e", "l", "e", "t", "e", "_", "s", "e", "c", "t", "i", "o", "n", "/">> \o PyFormat(section_id) IN
    /\ Dispatch("delete_section", <<"P", "O", "S", "T">>, u, PyNone, PyNone)
    /\ args' = NoArgs
    /\ heap' = PyNone

\* A dispatcher that sends the request again after a server error.
RespondRetry(resp) ==
    /\ pc = "awaiting"
    /\ response' = resp
    /\ IF resp.status_code >= 500 /\ Len(sent) < 2
       THEN /\ sent' = Append(sent, sent[1])
            /\ UNCHANGED <<outcome, pc>>
       ELSE /\ outcome' = Finish(resp, url, call.params)
            /\ pc' = "done"
            /\ UNCHANGED sent
    /\ UNCHANGED <<config, call, args, heap, url>>

\* The session call returns a response and _send_request runs to its end.
Respond(resp) ==
    /\ pc = "awaiting"
    /\ response' = resp
    /\ outcome' = Finish(resp, url, call.params)
    /\ pc' = "done"
    /\ UNCHANGED <<config, call, args, heap, url, sent>>

\* The session call itself fails (no connection, a timeout): the library's
\* error leaves _send_request, which catches nothing around the call.
NetworkFailure ==
    /\ pc = "awaiting"
    /\ outcome' = Raised("ConnectionError", <<>>)
    /\ pc' = "done"
    /\ UNCHANGED <<config, call, args, heap, url, sent, response>>

NoCall == [op |-> "", method |-> <<>>, uri |-> <<>>, data |-> PyNone, params |-> PyNone]

\* The ended call's result or error reaches the caller; the frame of the call
\* (its arguments and locals) is gone, the client remains.
Return ==
    /\ pc = "done"
    /\ pc' = "idle"
    /\ call' = NoCall
    /\ args' = NoArgs
    /\ heap' = PyNone
    /\ url' = <<>>
    /\ sent' = <<>>
    /\ response' = NoResponse
    /\ outcome' = NoOutcome
    /\ UNCHANGED config

(***************************************************************************)
(* Inputs                                                                  *)
(***************************************************************************)

\* The largest resource id a wrapper is called with.
MaxId == 1

BaseUrls == {<<"h">>, <<"h", "/">>, <<"h", "/", "/">>, <<>>}
Usernames == {<<"a", "l", "i", "c", "e">>, <<"b", "o">>}
ApiKeys == {<<"k", "1">>}

Methods == {<<"G", "E", "T">>, <<"g", "e", "t">>, <<"P", "O", "S", "T">>, <<"P", "o", "s", "t">>, <<"P", "U", "T">>, <<"D", "E", "L", "E", "T", "E">>, <<"D", "e", "l", "e", "t", "e">>, <<"P", "A", "T", "C", "H">>, <<"p", "a", "t", "c", "h">>, <<>>}
Uris == {<<"r", "/", "1">>, <<"r", "/", "1", "?", "s", "o", "f", "t", "=", "1">>}
DataSet == {PyNone, PyDict(<<>>), PyDict(<< <<<<"n">>, PyStr(<<"a">>)>> >>)}
ParamsSet ==
    { PyNone,
      PyDict(<<>>),
      PyDict(<< <<<<"a">>, PyInt(1)>> >>),
      PyDict(<< <<<<"s", "u", "i", "t", "e", "_", "i", "d">>, PyNone>>, <<<<"x">>, PyInt(5)>> >>),
      PyDict(<< <<<<"x">>, PyNone>> >>),
      PyDict(<< <<<<"a", " ", "b">>, PyStr(<<"c", "&", "d">>)>>, <<<<"z">>, PyInt(0)>> >>) }

\* The argument tuples of the direct dispatcher calls.
SendRequestInputs == Methods \X Uris \X DataSet \X ParamsSet

Ids == {PyInt(n) : n \in 1..MaxId}
SuiteIds == {PyNone, PyInt(7)}
SectionParams ==
    { PyNone,
      PyDict(<<>>),
      PyDict(<< <<<<"s", "u", "i", "t", "e", "_", "i", "d">>, PyInt(3)>> >>),
      PyDict(<< <<<<"x">>, PyInt(5)>> >>) }

\* The responses the server may give: a status, the body, and what
\* response.json() makes of the body (a value, or a decode error).
Bodies ==
    { [content |-> <<>>, json |-> [ok |-> FALSE, value |-> PyNone]],
      [content |-> <<"{", "\"", "e", "r", "r", "o", "r", "\"", ":", " ", "\"", "n", "o", "t", " ", "f", "o", "u", "n", "d", "\"", "}">>,
       json |-> [ok |-> TRUE, value |-> PyDict(<< <<<<"e", "r", "r", "o", "r">>, PyStr(<<"n", "o", "t", " ", "f", "o", "u", "n", "d">>)>> >>)]],
      [content |-> <<"{", "}">>, json |-> [ok |-> TRUE, value |-> PyDict(<<>>)]],
      [content |-> <<"<", "h", "t", "m", "l", ">">>, json |-> [ok |-> FALSE, value |-> PyNone]] }
Statuses == {200, 204, 299, 300, 404, 500}
Responses ==
    {[status_code |-> st, content |-> b.content, json |-> b.json] : st \in Statuses, b \in Bodies}

(***************************************************************************)
(* Specification                                                           *)
(***************************************************************************)

\* The state after TestRailClient(base_url, username, api_key).
Init ==
    \E b \in BaseUrls, u \in Usernames, k \in ApiKeys :
        /\ username = u
        /\ api_key = k
        /\ base_url = InitBaseUrl(b)
        /\ headers = InitHeaders(u, k)
        /\ pc = "idle"
        /\ call = NoCall
        /\ args = NoArgs
        /\ heap = PyNone
        /\ url = <<>>
        /\ sent = <<>>
        /\ response = NoResponse
        /\ outcome = NoOutcome

Next ==
    \/ \E in \in SendRequestInputs : SendRequest(in[1], in[2], in[3], in[4])
    \/ \E i \in 1..Len(Wrappers), id \in Ids, data \in DataSet : Wrapper(Wrappers[i], id, data)
    \/ \E id \in Ids, s \in SuiteIds : GetCases(id, s)
    \/ \E id \in Ids, s \in SuiteIds, p \in SectionParams : GetSections(id, s, p)
    \/ \E id \in Ids, soft \in BOOLEAN : DeleteSection(id, soft)
    \/ NetworkFailure
    \/ \E resp \in Responses : Respond(resp)
    \/ Return

Spec == Init /\ [][Next]_vars

(***************************************************************************)
(* Properties                                                              *)
(***************************************************************************)

Supported == {<<"G", "E", "T">>, <<"P", "O", "S", "T">>, <<"P", "U", "T">>, <<"D", "E", "L", "E", "T", "E">>}

IsGet == Upper(call.method) = <<"G", "E", "T">>

NotNoneItem(it) == it[2] # PyNone

\* The entries of the call's params whose value is not None.
NonNone == IF call.params.t = "dict" THEN SelectSeq(call.params.d, NotNoneItem) ELSE <<>>

\* What the request URL holds after the base URL and the URI argument.
Appended(u) == SubSeq(u, Len(base_url) + Len(call.uri) + 1, Len(u))

\* The first place ApiPrefix occurs in u.
PrefixAt(u) ==
    CHOOSE j \in 1..Len(u) :
        OccursAt(u, ApiPrefix, j) /\ \A k \in 1..(j - 1) : ~OccursAt(u, ApiPrefix, k)

\* C1: every request URL has exactly one "/" immediately before
\* "index.php?/api/v2/", whatever base URL the client was constructed with,
\* also one that ends in several slashes.
C1_ExactlyOneSlash ==
    \A i \in 1..Len(sent) :
        LET u == sent[i].url
            p == PrefixAt(u)
        IN  /\ Contains(u, ApiPrefix)
            /\ p >= 2
            /\ u[p - 1] = "/"
            /\ (p >= 3 => u[p - 2] # "/")

\* C2 as stated: in a GET with a non-None parameter the block is joined with
\* "&" if the URI argument contains "?", and with "?" if it contains none.
C2_SeparatorByUri ==
    \A i \in 1..Len(sent) :
        (IsGet /\ Len(NonNone) > 0) =>
            Appended(sent[i].url)[1] = (IF Contains(call.uri, <<"?">>) THEN "&" ELSE "?")

\* C2 as amended: in a GET with a non-None parameter the block is always
\* joined with "&", whether or not the URI argument contains "?", because the
\* URL the test looks at starts with the base URL, which holds the "?" of
\* "index.php?"; no "?" is added, and a URI ending "?soft=1" with params
\* {"a": 1} gives a URL ending "?soft=1&a=1".
C2_SeparatorAlwaysAmp ==
    \A i \in 1..Len(sent) :
        (IsGet /\ Len(NonNone) > 0) =>
            LET u == sent[i].url IN
            /\ SubSeq(u, 1, Len(base_url) + Len(call.uri)) = base_url \o call.uri
            /\ Len(Appended(u)) > 1
            /\ Appended(u)[1] = "&"
            /\ CountChar(u, "?") = CountChar(base_url \o call.uri, "?")
            /\ (EndsWith(call.uri, <<"?", "s", "o", "f", "t", "=", "1">>) /\ call.params = PyDict(<< <<<<"a">>, PyInt(1)>> >>)
                    => EndsWith(u, <<"?", "s", "o", "f", "t", "=", "1", "&", "a", "=", "1">>))

\* C2: a GET with a non-None parameter and a URI argument without "?" was sent.
C2_Witness ==
    /\ Len(sent) = 1
    /\ IsGet
    /\ Len(NonNone) > 0
    /\ ~Contains(call.uri, <<"?">>)
    /\ call.op = "_send_request"

\* C3: a method whose upper-cased name is not GET, POST, PUT or DELETE raises
\* ValueError with no HTTP call made, whatever the other arguments; any casing
\* of the four names is accepted and makes exactly one HTTP call.
C3_UnsupportedMethod ==
    pc \in {"awaiting", "done"} =>
        IF Upper(call.method) \in Supported
        THEN Len(sent) = 1 /\ outcome.exc # "ValueError"
        ELSE /\ pc = "done"
             /\ outcome.kind = "raise"
             /\ outcome.exc = "ValueError"
             /\ Len(sent) = 0

\* C3: a PATCH call has ended in ValueError.
C3_Witness ==
    /\ pc = "done"
    /\ call.method = <<"P", "A", "T", "C", "H">>
    /\ call.params # PyNone
    /\ outcome.exc = "ValueError"

\* The error payload as it is printed: the decoded body, or the raw text.
PayloadText == IF response.json.ok THEN PyFormat(response.json.value) ELSE response.content

\* C4: every response with status >= 300 makes the call raise an error whose
\* message contains the status code, the error payload (decoded body, or raw
\* text), the request URL and, when the caller supplied query parameters,
\* those parameters as passed, None entries included.
C4_ErrorMessage ==
    (pc = "done" /\ response.status_code >= 300) =>
        /\ outcome.kind = "raise"
        /\ outcome.exc = "Exception"
        /\ Contains(outcome.msg, IntToStr(response.status_code))
        /\ Contains(outcome.msg, PayloadText)
        /\ Contains(outcome.msg, sent[1].url)
        /\ (call.params.t = "dict" /\ Len(call.params.d) > 0
                => Contains(outcome.msg, PyFormat(call.params)))

\* C4: a 404 with a JSON body has been raised for a call whose params hold a
\* None entry.
C4_Witness ==
    /\ pc = "done"
    /\ response.status_code = 404
    /\ response.json.ok
    /\ Contains(outcome.msg, <<"n", "o", "t", " ", "f", "o", "u", "n", "d">>)
    /\ call.params = PyDict(<< <<<<"s", "u", "i", "t", "e", "_", "i", "d">>, PyNone>>, <<<<"x">>, PyInt(5)>> >>)
    /\ Contains(outcome.msg, <<"'", "s", "u", "i", "t", "e", "_", "i", "d", "'", ":", " ", "N", "o", "n", "e">>)

\* C5: every response with status < 300 is a success: the call returns the
\* decoded body, or an empty mapping for a zero-length body, and never an
\* error or a decode failure.
C5_SuccessNeverFails ==
    (pc = "done" /\ response # NoResponse /\ response.status_code < 300) =>
        /\ outcome.kind = "return"
        /\ outcome.value = (IF Len(response.content) = 0 THEN PyDict(<<>>) ELSE response.json.value)

\* C6: every failure of a request surfaces as the one error kind that carries
\* a status code, a network failure like an HTTP error; besides it only the
\* unsupported-method error leaves the client.
C6_SingleErrorKind ==
    (pc = "done" /\ outcome.kind = "raise") =>
        /\ outcome.exc \in {"Exception", "ValueError"}
        /\ (outcome.exc = "Exception" =>
                \E st \in Statuses : Contains(outcome.msg, <<"H", "T", "T", "P", " ">> \o IntToStr(st)))

\* C7: in a GET every params entry with value None is dropped and every other
\* entry appears url-encoded in the request URL, so that the appended block
\* holds exactly the non-None entries; nothing is appended when all entries
\* are None or params is empty; for the other methods params never alter the
\* URL.
C7_QueryFiltering ==
    \A i \in 1..Len(sent) :
        LET u == sent[i].url IN
        /\ SubSeq(u, 1, Len(base_url) + Len(call.uri)) = base_url \o call.uri
        /\ IF IsGet /\ Len(NonNone) > 0
           THEN /\ Appended(u)[1] \in {"&", "?"}
                /\ Tail(Appended(u)) = UrlEncode(NonNone)
           ELSE Appended(u) = <<>>
        /\ (IsGet /\ call.params = PyDict(<< <<<<"s", "u", "i", "t", "e", "_", "i", "d">>, PyNone>>, <<<<"x">>, PyInt(5)>> >>)
                => Contains(u, <<"x", "=", "5">>) /\ ~Contains(u, <<"s", "u", "i", "t", "e", "_", "i", "d">>))

\* C7: a GET whose params hold a None entry and a non-None one was sent.
C7_Witness ==
    /\ Len(sent) = 1
    /\ IsGet
    /\ call.params = PyDict(<< <<<<"s", "u", "i", "t", "e", "_", "i", "d">>, PyNone>>, <<<<"x">>, PyInt(5)>> >>)
    /\ Contains(sent[1].url, <<"x", "=", "5">>)

\* C8: get_sections with a suite_id merges it without overwriting: every
\* entry of the caller's params keeps its value in the parameters sent, and
\* the caller's mapping is the same after the call as before it.
C8_MergeKeepsCallerEntries ==
    (pc \in {"awaiting", "done"} /\ call.op = "get_sections"
        /\ ~IsNone(args.suite_id) /\ args.params.t = "dict") =>
        /\ \A k \in DictKeys(args.params.d) :
                DictGet(call.params.d, k) = DictGet(args.params.d, k)
        /\ heap = args.params

IsWrapperCall == call.op \notin {"", "_send_request"}

C10_Stateless ==
    [][ /\ base_url' = base_url
        /\ username' = username
        /\ api_key' = api_key
        /\ headers' = headers
        /\ DictGet(headers, <<"A", "u", "t", "h", "o", "r", "i", "z", "a", "t", "i", "o", "n">>) = PyStr(<<"B", "a", "s", "i", "c", " ">> \o BasicAuth(username, api_key))
        /\ DictGet(headers, <<"C", "o", "n", "t", "e", "n", "t", "-", "T", "y", "p", "e">>) = PyStr(<<"a", "p", "p", "l", "i", "c", "a", "t", "i", "o", "n", "/", "j", "s", "o", "n">>)
        /\ \A i \in 1..Len(sent') :
                /\ sent'[i].headers = headers
                /\ SubSeq(sent'[i].url, 1, Len(base_url)) = base_url ]_vars

\* C10: a call has raised the error of a response and the client is as constructed.
C10_Witness ==
    /\ pc = "done"
    /\ outcome.exc = "Exception"
    /\ base_url = <<"h", "/", "i", "n", "d", "e", "x", ".", "p", "h", "p", "?", "/", "a", "p", "i", "/", "v", "2", "/">>
    /\ username = <<"a", "l", "i", "c", "e">>
    /\ DictGet(headers, <<"A", "u", "t", "h", "o", "r", "i", "z", "a", "t", "i", "o", "n">>) = PyStr(<<"B", "a", "s", "i", "c", " ", "Y", "W", "x", "p", "Y", "2", "U", "6", "a", "z", "E", "=">>)

====
